---------------------------- MODULE Spec2Model ----------------------------
(***************************************************************************)
(* bayer2tga: one Bayer RG10 sensor frame is read, normalized in place,    *)
(* de-Bayered to an 8-bit BGR image and saved with an 18-byte TGA header.  *)
(*                                                                         *)
(* The model follows src/bayer2tga.c.  The frame geometry (the macros      *)
(* WIDTH and HEIGHT, 1920x1080 in the source) is a configuration chosen in *)
(* the initial state; the three pixel loops advance one (x, y) iteration   *)
(* per step.  The single-precision arithmetic of NORM and of               *)
(* normalize_frame is modelled bit-exactly (IEEE 754 binary32, round to    *)
(* nearest even, every float operation rounded to float, as on an SSE or   *)
(* AArch64 build).                                                         *)
(***************************************************************************)
EXTENDS Integers, FiniteSets, Sequences, TLC

(***************************************************************************)
(* Bounds of the model.                                                    *)
(***************************************************************************)
\* Frames of up to MaxBlocks mosaic blocks (WIDTH * HEIGHT <= MaxBlocks).
MaxBlocks == 2

(***************************************************************************)
(* Program constants (the #defines).                                       *)
(***************************************************************************)
RG10_BITS == 10
RGB_BITS == 8
RG10_COLOR_SIZE == 2
RGB_COLOR_SIZE == 1
RG10_COLORS == 4
RGB_COLORS == 3

Pow2(n) == 2 ^ n

MAX_RG10 == Pow2(RG10_BITS) - 1
MAX_RGB == Pow2(RGB_BITS) - 1

\* uint16_t and uint8_t value ranges.
U16Max == Pow2(16) - 1
U8Max == Pow2(8) - 1

(***************************************************************************)
(* IEEE 754 binary32 values that the program computes with.  A finite      *)
(* value is s * m * 2^e with 0 <= m <= 2^24; exponent range and subnormals *)
(* are never approached by this program (all magnitudes lie between 2^-17  *)
(* and 2^27).                                                              *)
(***************************************************************************)
Abs(n) == IF n < 0 THEN -n ELSE n
Sgn(n) == IF n < 0 THEN -1 ELSE 1

F32Fin(s, m, e) == [k |-> "fin", s |-> s, m |-> m, e |-> e]
F32Inf(s) == [k |-> "inf", s |-> s, m |-> 0, e |-> 0]
F32NaN == [k |-> "nan", s |-> 1, m |-> 0, e |-> 0]

\* (float)n for an int n with |n| < 2^24: exact.
F32FromInt(n) == F32Fin(Sgn(n), Abs(n), 0)

\* Number of significant bits of n >= 0: of a byte by comparisons, of a longer
\* number byte by byte.
ByteBits(n) ==
    IF n < 16
    THEN (IF n < 4 THEN (IF n < 2 THEN n ELSE 2) ELSE (IF n < 8 THEN 3 ELSE 4))
    ELSE (IF n < 64 THEN (IF n < 32 THEN 5 ELSE 6) ELSE (IF n < 128 THEN 7 ELSE 8))

RECURSIVE Bits(_)
Bits(n) == IF n < Pow2(8) THEN ByteBits(n) ELSE 8 + Bits(n \div Pow2(8))

Min2(a, b) == IF a < b THEN a ELSE b

\* One step of long division: <<q, r>> is quotient and remainder of some
\* n / b; the result is quotient and remainder of (n * 2^s) / b.
ShiftDiv(qr, b, s) ==
    <<qr[1] * Pow2(s) + (qr[2] * Pow2(s)) \div b, (qr[2] * Pow2(s)) % b>>

\* (float)a / (float)b for ints, |a| < 2^23, |b| < 2^17: the float quotient,
\* rounded to nearest even.  x/0 is +-inf, 0/0 is NaN (IEC 60559).
\* floor(|a| * 2^t / |b|) is computed in four shifts of at most 10 bits, t
\* chosen so that it has 24 or 25 bits; 25 bits drop the last one.
F32DivInt(a, b) ==
    IF b = 0 THEN (IF a = 0 THEN F32NaN ELSE F32Inf(Sgn(a)))
    ELSE IF a = 0 THEN F32Fin(Sgn(b), 0, 0)
    ELSE LET aa == Abs(a)
             bb == Abs(b)
             t  == 24 - (Bits(aa) - Bits(bb))
             s1 == Min2(t, 10)
             s2 == Min2(t - s1, 10)
             s3 == Min2(t - s1 - s2, 10)
             s4 == t - s1 - s2 - s3
             d  == ShiftDiv(ShiftDiv(ShiftDiv(ShiftDiv(
                       <<aa \div bb, aa % bb>>, bb, s1), bb, s2), bb, s3), bb, s4)
             q  == d[1]
             r  == d[2]
             q2 == q \div 2
             r2 == r + (q % 2) * bb
             sg == Sgn(a) * Sgn(b)
         IN  IF q < Pow2(24)
             THEN F32Fin(sg, IF 2 * r > bb \/ (2 * r = bb /\ q % 2 = 1)
                             THEN q + 1 ELSE q, -t)
             ELSE F32Fin(sg, IF r2 > bb \/ (r2 = bb /\ q2 % 2 = 1)
                             THEN q2 + 1 ELSE q2, 1 - t)

\* n * f for an int n (|n| < 2^17, converted to float exactly) and a float f:
\* the float product, rounded to nearest even.  The exact product is held as
\* hi * 2^12 + lo to stay inside 32-bit integers.
F32MulInt(n, f) ==
    IF f.k = "nan" THEN F32NaN
    ELSE IF f.k = "inf" THEN (IF n = 0 THEN F32NaN ELSE F32Inf(Sgn(n) * f.s))
    ELSE LET a   == Abs(n)
             mh  == f.m \div 4096
             ml  == f.m % 4096
             lo  == (a * ml) % 4096
             hi  == a * mh + (a * ml) \div 4096
             sg  == Sgn(n) * f.s
         IN  IF hi < 4096 THEN F32Fin(sg, hi * 4096 + lo, f.e)
             ELSE LET sh   == Bits(hi) - 12
                      q    == IF sh <= 12
                              THEN hi * Pow2(12 - sh) + lo \div Pow2(sh)
                              ELSE hi \div Pow2(sh - 12)
                      r    == IF sh <= 12
                              THEN lo % Pow2(sh)
                              ELSE (hi % Pow2(sh - 12)) * 4096 + lo
                      half == Pow2(sh - 1)
                      up   == IF r > half \/ (r = half /\ q % 2 = 1)
                              THEN 1 ELSE 0
                  IN  F32Fin(sg, q + up, f.e + sh)

\* A value no integer type of the program can hold: what an infinite or
\* huge float stands for when it is converted.
Huge == Pow2(30)

\* The integer part of a finite float, toward zero (C's float-to-integer
\* conversion), and C's round(): to nearest, halves away from zero.
F32Trunc(f) ==
    IF f.e >= 0 THEN (IF f.e > 6 THEN f.s * Huge ELSE f.s * f.m * Pow2(f.e))
    ELSE IF -f.e > 25 THEN 0
    ELSE f.s * (f.m \div Pow2(-f.e))

F32Round(f) ==
    IF f.e >= 0 THEN (IF f.e > 6 THEN f.s * Huge ELSE f.s * f.m * Pow2(f.e))
    ELSE IF -f.e > 25 THEN 0
    ELSE LET q == f.m \div Pow2(-f.e)
             r == f.m % Pow2(-f.e)
         IN  f.s * (IF 2 * r >= Pow2(-f.e) THEN q + 1 ELSE q)

(***************************************************************************)
(* Program state.                                                          *)
(***************************************************************************)
VARIABLES
    WIDTH, HEIGHT,  \* the configured geometry, in mosaic blocks (= pixels)
    pc,             \* the function main is in; "exit" once the process ended
    exit_code,      \* the process's exit code, meaningful when pc = "exit"
    calls,          \* the functions main has called so far, in order
    buffer,         \* the SensorFrame: uint16_t samples, index -> value
    image,          \* the RGBImage: uint8_t bytes, index -> value
    min, max,       \* normalize_frame's locals, filled by min_max_frame
    mult,           \* normalize_frame's float factor
    x, y,           \* loop counters of the function main is in
    frame_in,       \* the frame as read_file returned it
    fread_short,    \* fread returned fewer bytes than RG10_SIZE
    out,            \* the output file
    undef,          \* a float-to-integer conversion was undefined
    oob,            \* a sample or byte outside its buffer was accessed
    acc             \* per loop, how often each slot was accessed

vars == <<WIDTH, HEIGHT, pc, exit_code, calls, buffer, image, min, max, mult,
          x, y, frame_in, fread_short, out, undef, oob, acc>>

(***************************************************************************)
(* Layout macros.                                                          *)
(***************************************************************************)
RG10_R == 0
\* Gr addressed like red: the offset of one sample is left out.
RG10_Gr_AsRed == RG10_R
RG10_Gr == RG10_R + 1
\* The lower row one sample too early: the row length without the sample size.
RG10_Gb_NoSize == WIDTH
RG10_Gb == WIDTH * RG10_COLOR_SIZE
RG10_B == RG10_Gb + 1

RGB_R == 2
RGB_G == 1
RGB_B == 0

RG10_SIZE == WIDTH * HEIGHT * RG10_COLORS * RG10_COLOR_SIZE
RGB_SIZE == WIDTH * HEIGHT * RGB_COLORS * RGB_COLOR_SIZE

RG10_LOCATION(X, Y, COLOR) == Y * WIDTH * RG10_COLORS + X * RG10_COLOR_SIZE + COLOR
RGB_LOCATION(X, Y, COLOR) == Y * WIDTH * RGB_COLORS + X * RGB_COLORS + COLOR

\* Scaling by the ratio of the value counts (a shift by two bits) instead of
\* the ratio of the maxima.
NormFactor_Pow2 == F32DivInt(MAX_RGB + 1, MAX_RG10 + 1)

\* NORM(V): V * ((float)MAX_RGB / MAX_RG10), a float.
NormFactor == F32DivInt(MAX_RGB, MAX_RG10)
NORM(V) == F32MulInt(V, NormFactor)

\* The buffers malloc returns: RG10_SIZE bytes of uint16_t, RGB_SIZE of uint8_t.
SampleSlots == 0 .. (RG10_SIZE \div RG10_COLOR_SIZE) - 1
ByteSlots == 0 .. (RGB_SIZE \div RGB_COLOR_SIZE) - 1

(***************************************************************************)
(* Values that stand for "no defined value": the result of an undefined    *)
(* float-to-integer conversion before the build's outcome is chosen, and a *)
(* malloc'ed byte never written.                                           *)
(***************************************************************************)
Undef == 0 - 1
Uninit == 0 - 2

\* Sample values the frames are drawn from: the 10-bit extremes, values that
\* normalize to ties, a mid value, and the largest 16-bit word.
Samples == {0, 15, 30, 512, MAX_RG10, U16Max}

\* Outcomes of an undefined conversion to uint16_t, and to uint8_t of a float
\* whose integer part is t.
UndefU16 == Samples
UndefU8(t) == {0, U8Max, t % (U8Max + 1)}

\* The frames read, of n samples: a background value with up to two samples
\* that differ.
FramesOf(n) ==
    {[i \in 0 .. n - 1 |-> IF i = p1 THEN v1 ELSE IF i = p2 THEN v2 ELSE b] :
        b \in Samples, v1 \in Samples, v2 \in Samples,
        p1 \in 0 .. n - 1, p2 \in 0 .. n - 1}

\* What a short read can leave in the buffer (the part of the file that was
\* read, then whatever malloc returned): a background with one sample apart.
ShortFramesOf(n) ==
    {[i \in 0 .. n - 1 |-> IF i = p THEN v ELSE b] :
        b \in Samples, v \in Samples, p \in 0 .. n - 1}

\* Both, for every frame size of the model.
FrameSizes == {RG10_COLORS * n : n \in 1 .. MaxBlocks}
FrameTable == [n \in FrameSizes |-> FramesOf(n)]
ShortFrameTable == [n \in FrameSizes |-> ShortFramesOf(n)]

Frames ==
    IF SampleSlots = {} THEN {[i \in SampleSlots |-> 0]}
    ELSE FrameTable[Cardinality(SampleSlots)]
ShortFrames ==
    IF SampleSlots = {} THEN {} ELSE ShortFrameTable[Cardinality(SampleSlots)]

\* *(buf + i): a read outside the buffer is recorded in oob by the caller;
\* the model continues with 0.
Load(buf, i) == IF i \in DOMAIN buf THEN buf[i] ELSE 0
Store(buf, i, v) == IF i \in DOMAIN buf THEN [buf EXCEPT ![i] = v] ELSE buf

\* cnt with every slot's count raised by its number of occurrences in locs.
Touch(cnt, locs) ==
    [i \in DOMAIN cnt |-> cnt[i] + Cardinality({j \in DOMAIN locs : locs[j] = i})]
Outside(buf, locs) == \E j \in DOMAIN locs : locs[j] \notin DOMAIN buf

\* Conversion on assignment of round(f) to uint16_t and of a float to uint8_t.
\* Undefined (NaN, infinite, out of range): Undef.
StoreU16(f) ==
    IF f.k # "fin" THEN Undef
    ELSE LET r == F32Round(f) IN IF r >= 0 /\ r <= U16Max THEN r ELSE Undef
StoreU8(f) ==
    IF f.k # "fin" THEN Undef
    ELSE LET t == F32Trunc(f) IN IF t >= 0 /\ t <= U8Max THEN t ELSE Undef

(***************************************************************************)
(* min_max_frame: one iteration of the loop body, and the whole function.  *)
(***************************************************************************)
\* The running minimum started at the largest 10-bit value instead of the
\* largest uint16_t.
MinMaxInit_10bit == [min |-> MAX_RG10, max |-> 0]
MinMaxInit == [min |-> U16Max, max |-> 0]

MinMaxLocs(X, Y) ==
    <<RG10_LOCATION(X, Y, RG10_Gb), RG10_LOCATION(X, Y, RG10_Gr),
      RG10_LOCATION(X, Y, RG10_B), RG10_LOCATION(X, Y, RG10_R)>>

MinMaxBlock(buf, X, Y, mm) ==
    LET Gb == Load(buf, RG10_LOCATION(X, Y, RG10_Gb))
        Gr == Load(buf, RG10_LOCATION(X, Y, RG10_Gr))
        B  == Load(buf, RG10_LOCATION(X, Y, RG10_B))
        R  == Load(buf, RG10_LOCATION(X, Y, RG10_R))
        Up(m, v) == IF m < v THEN v ELSE m
        Dn(m, v) == IF m > v THEN v ELSE m
    IN  [max |-> Up(Up(Up(Up(mm.max, Gb), Gr), B), R),
         min |-> Dn(Dn(Dn(Dn(mm.min, Gb), Gr), B), R)]

RECURSIVE MinMaxFrom(_, _, _)
MinMaxFrom(buf, n, mm) ==
    IF n >= WIDTH * HEIGHT THEN mm
    ELSE MinMaxFrom(buf, n + 1, MinMaxBlock(buf, n % WIDTH, n \div WIDTH, mm))

min_max_frame(buf) == MinMaxFrom(buf, 0, MinMaxInit)

(***************************************************************************)
(* normalize_frame.                                                        *)
(***************************************************************************)
\* The factor taken from the number of values, 1024, instead of the maximum.
Mult_1024(mm) == F32DivInt(1024, mm.max - mm.min)

\* float mult = 1023 / ((float)max - (float)min); the difference is exact.
Mult(mm) == F32DivInt(1023, mm.max - mm.min)

NormalizeLocs(X, Y) ==
    <<RG10_LOCATION(X, Y, RG10_Gb), RG10_LOCATION(X, Y, RG10_Gr),
      RG10_LOCATION(X, Y, RG10_R), RG10_LOCATION(X, Y, RG10_B)>>

\* buffer[loc] = round((buffer[loc] - min) * mult)
NormalizeAt(buf, loc, mn, mlt) ==
    Store(buf, loc, StoreU16(F32MulInt(Load(buf, loc) - mn, mlt)))

\* The four assignments of one iteration, in the source's order.
NormalizeBlock(buf, X, Y, mn, mlt) ==
    LET L  == NormalizeLocs(X, Y)
        b1 == NormalizeAt(buf, L[1], mn, mlt)
        b2 == NormalizeAt(b1, L[2], mn, mlt)
        b3 == NormalizeAt(b2, L[3], mn, mlt)
    IN  NormalizeAt(b3, L[4], mn, mlt)

RECURSIVE NormalizeFrom(_, _, _, _)
NormalizeFrom(buf, n, mn, mlt) ==
    IF n >= WIDTH * HEIGHT THEN buf
    ELSE NormalizeFrom(NormalizeBlock(buf, n % WIDTH, n \div WIDTH, mn, mlt),
                       n + 1, mn, mlt)

\* The frame normalize_frame leaves; Undef where the conversion is undefined.
normalize_frame(buf) ==
    LET mm == min_max_frame(buf) IN NormalizeFrom(buf, 0, mm.min, Mult(mm))

(***************************************************************************)
(* debayer.                                                                *)
(***************************************************************************)
DebayerReads(X, Y) ==
    <<RG10_LOCATION(X, Y, RG10_R), RG10_LOCATION(X, Y, RG10_B),
      RG10_LOCATION(X, Y, RG10_Gb), RG10_LOCATION(X, Y, RG10_Gr)>>
DebayerWrites(X, Y) ==
    <<RGB_LOCATION(X, Y, RGB_R), RGB_LOCATION(X, Y, RGB_B), RGB_LOCATION(X, Y, RGB_G)>>

\* The three floats assigned to the R, B and G bytes of pixel (X, Y); the
\* green sum is halved as an int before NORM.
DebayerFloats(buf, X, Y) ==
    <<NORM(Load(buf, RG10_LOCATION(X, Y, RG10_R))),
      NORM(Load(buf, RG10_LOCATION(X, Y, RG10_B))),
      NORM((Load(buf, RG10_LOCATION(X, Y, RG10_Gb))
            + Load(buf, RG10_LOCATION(X, Y, RG10_Gr))) \div 2)>>

DebayerBlock(img, buf, X, Y) ==
    LET F  == DebayerFloats(buf, X, Y)
        W  == DebayerWrites(X, Y)
        i1 == Store(img, W[1], StoreU8(F[1]))
        i2 == Store(i1, W[2], StoreU8(F[2]))
    IN  Store(i2, W[3], StoreU8(F[3]))

RECURSIVE DebayerFrom(_, _, _)
DebayerFrom(img, buf, n) ==
    IF n >= WIDTH * HEIGHT THEN img
    ELSE DebayerFrom(DebayerBlock(img, buf, n % WIDTH, n \div WIDTH), buf, n + 1)

\* The image debayer returns; Undef where the conversion is undefined.
debayer(buf) == DebayerFrom([i \in ByteSlots |-> Uninit], buf, 0)

(***************************************************************************)
(* write_tga's header.                                                     *)
(***************************************************************************)
\* The header with the high byte of the width not shifted down.
tga_header_NoShift ==
    [i \in 0 .. 17 |->
        CASE i = 2  -> 2
          [] i = 12 -> WIDTH % 256
          [] i = 13 -> WIDTH % 256
          [] i = 14 -> HEIGHT % 256
          [] i = 15 -> (HEIGHT \div 256) % 256
          [] i = 16 -> 24
          [] i = 17 -> 32
          [] OTHER  -> 0]

tga_header ==
    [i \in 0 .. 17 |->
        CASE i = 2  -> 2
          [] i = 12 -> WIDTH % 256
          [] i = 13 -> (WIDTH \div 256) % 256
          [] i = 14 -> HEIGHT % 256
          [] i = 15 -> (HEIGHT \div 256) % 256
          [] i = 16 -> 24
          [] i = 17 -> 32
          [] OTHER  -> 0]

(***************************************************************************)
(* main: the order of the calls.                                           *)
(***************************************************************************)
\* main calling debayer before normalize_frame.
MainOrder_Swapped == <<"read_file", "debayer", "normalize_frame", "write_tga">>
MainOrder == <<"read_file", "normalize_frame", "debayer", "write_tga">>

\* What main does after `stage` returned: the next call, or return 0.
After(stage) ==
    LET i == CHOOSE j \in DOMAIN MainOrder : MainOrder[j] = stage
    IN  IF i < Len(MainOrder) THEN MainOrder[i + 1] ELSE "exit"

Zeros(S) == [i \in S |-> 0]

\* Control passes to `stage`: its entry code runs up to its first loop.
Enter(stage) ==
    /\ pc' = IF stage = "normalize_frame" THEN "min_max_frame" ELSE stage
    /\ calls' = IF stage = "exit" THEN calls ELSE Append(calls, stage)
    /\ exit_code' = IF stage = "exit" THEN 0 ELSE exit_code
    /\ x' = 0
    /\ y' = 0
    /\ min' = IF stage = "normalize_frame" THEN MinMaxInit.min ELSE min
    /\ max' = IF stage = "normalize_frame" THEN MinMaxInit.max ELSE max
    /\ image' = IF stage = "debayer" THEN [i \in ByteSlots |-> Uninit] ELSE image

\* The loop counters after one iteration of for(y) for(x), and whether the
\* body runs again.
InLoop == y < HEIGHT /\ x < WIDTH
StepXY ==
    /\ x' = IF x + 1 < WIDTH THEN x + 1 ELSE 0
    /\ y' = IF x + 1 < WIDTH THEN y ELSE y + 1

(***************************************************************************)
(* Initial states.                                                         *)
(***************************************************************************)
Geometries ==
    {g \in (1 .. MaxBlocks) \X (1 .. MaxBlocks) : g[1] * g[2] <= MaxBlocks}

InitAt(w, h) ==
    /\ WIDTH = w
    /\ HEIGHT = h
    /\ pc = "read_file"
    /\ exit_code = 0
    /\ calls = <<"read_file">>
    /\ buffer = Zeros({})
    /\ image = Zeros({})
    /\ frame_in = Zeros({})
    /\ min = 0
    /\ max = 0
    /\ mult = F32FromInt(0)
    /\ x = 0
    /\ y = 0
    /\ fread_short = FALSE
    /\ out = [opened |-> FALSE, hdr_ok |-> FALSE, data_ok |-> FALSE,
              header |-> Zeros({}), data |-> Zeros({})]
    /\ undef = FALSE
    /\ oob = FALSE
    /\ acc = [mm |-> Zeros({}), nf |-> Zeros({}), db |-> Zeros({}), img |-> Zeros({})]

Init == \E g \in Geometries : InitAt(g[1], g[2])

(***************************************************************************)
(* read_file.                                                              *)
(***************************************************************************)
\* fopen fails: diagnostic, exit(-1).
ReadFileOpenFail ==
    /\ pc = "read_file"
    /\ pc' = "exit"
    /\ exit_code' = 0 - 1
    /\ UNCHANGED <<WIDTH, HEIGHT, calls, buffer, image, min, max, mult, x, y,
                   frame_in, fread_short, out, undef, oob, acc>>

\* fopen succeeds; fread's return value is not looked at.  After a short
\* read the rest of the malloc'ed buffer is uninitialized.
ReadFile ==
    /\ pc = "read_file"
    /\ \E short \in BOOLEAN :
          /\ buffer' \in (IF short THEN ShortFrames ELSE Frames)
          /\ fread_short' = short
    /\ frame_in' = buffer'
    /\ acc' = [mm |-> Zeros(SampleSlots), nf |-> Zeros(SampleSlots),
               db |-> Zeros(SampleSlots), img |-> Zeros(ByteSlots)]
    /\ Enter(After("read_file"))
    /\ UNCHANGED <<WIDTH, HEIGHT, mult, out, undef, oob>>

(***************************************************************************)
(* normalize_frame, calling min_max_frame first.                           *)
(***************************************************************************)
MinMaxStep ==
    /\ pc = "min_max_frame"
    /\ InLoop
    /\ LET mm == MinMaxBlock(buffer, x, y, [min |-> min, max |-> max])
       IN  min' = mm.min /\ max' = mm.max
    /\ oob' = (oob \/ Outside(buffer, MinMaxLocs(x, y)))
    /\ acc' = [acc EXCEPT !.mm = Touch(@, MinMaxLocs(x, y))]
    /\ StepXY
    /\ UNCHANGED <<WIDTH, HEIGHT, pc, exit_code, calls, buffer, image, mult,
                   frame_in, fread_short, out, undef>>

\* min_max_frame returns; normalize_frame computes mult.
MinMaxReturn ==
    /\ pc = "min_max_frame"
    /\ ~InLoop
    /\ mult' = Mult([min |-> min, max |-> max])
    /\ pc' = "normalize_frame"
    /\ x' = 0
    /\ y' = 0
    /\ UNCHANGED <<WIDTH, HEIGHT, exit_code, calls, buffer, image, min, max,
                   frame_in, fread_short, out, undef, oob, acc>>

\* b with each Undef slot holding u.
Resolve(b, u) == [i \in DOMAIN b |-> IF b[i] = Undef THEN u ELSE b[i]]
HasUndef(b) == \E i \in DOMAIN b : b[i] = Undef

NormalizeStep ==
    /\ pc = "normalize_frame"
    /\ InLoop
    /\ LET nb == NormalizeBlock(buffer, x, y, min, mult)
       IN  IF HasUndef(nb)
           THEN /\ \E u \in UndefU16 : buffer' = Resolve(nb, u)
                /\ undef' = TRUE
           ELSE /\ buffer' = nb
                /\ undef' = undef
    /\ oob' = (oob \/ Outside(buffer, NormalizeLocs(x, y)))
    /\ acc' = [acc EXCEPT !.nf = Touch(@, NormalizeLocs(x, y))]
    /\ StepXY
    /\ UNCHANGED <<WIDTH, HEIGHT, pc, exit_code, calls, image, min, max, mult,
                   frame_in, fread_short, out>>

NormalizeReturn ==
    /\ pc = "normalize_frame"
    /\ ~InLoop
    /\ Enter(After("normalize_frame"))
    /\ UNCHANGED <<WIDTH, HEIGHT, buffer, mult, frame_in, fread_short, out,
                   undef, oob, acc>>

(***************************************************************************)
(* debayer.                                                                *)
(***************************************************************************)
DebayerStep ==
    /\ pc = "debayer"
    /\ InLoop
    /\ LET ni == DebayerBlock(image, buffer, x, y)
           F  == DebayerFloats(buffer, x, y)
           T  == {IF F[j].k = "fin" THEN Abs(F32Trunc(F[j])) ELSE 0 : j \in 1 .. 3}
       IN  IF HasUndef(ni)
           THEN /\ \E t \in T : \E u \in UndefU8(t) : image' = Resolve(ni, u)
                /\ undef' = TRUE
           ELSE /\ image' = ni
                /\ undef' = undef
    /\ oob' = (oob \/ Outside(buffer, DebayerReads(x, y))
                   \/ Outside(image, DebayerWrites(x, y)))
    /\ acc' = [acc EXCEPT !.db = Touch(@, DebayerReads(x, y)),
                          !.img = Touch(@, DebayerWrites(x, y))]
    /\ StepXY
    /\ UNCHANGED <<WIDTH, HEIGHT, pc, exit_code, calls, buffer, min, max, mult,
                   frame_in, fread_short, out>>

DebayerReturn ==
    /\ pc = "debayer"
    /\ ~InLoop
    /\ Enter(After("debayer"))
    /\ UNCHANGED <<WIDTH, HEIGHT, buffer, mult, frame_in, fread_short, out,
                   undef, oob, acc>>

(***************************************************************************)
(* write_tga.                                                              *)
(***************************************************************************)
\* fopen fails: diagnostic, exit(-1).
WriteTgaOpenFail ==
    /\ pc = "write_tga"
    /\ pc' = "exit"
    /\ exit_code' = 0 - 1
    /\ UNCHANGED <<WIDTH, HEIGHT, calls, buffer, image, min, max, mult, x, y,
                   frame_in, fread_short, out, undef, oob, acc>>

\* fopen succeeds; neither fwrite's return value is looked at.  A failed
\* fwrite leaves its part of the file unwritten.  main then returns 0.
WriteTga ==
    /\ pc = "write_tga"
    /\ \E hdr_ok \in BOOLEAN, data_ok \in (IF RGB_SIZE > 0 THEN BOOLEAN ELSE {TRUE}) :
          out' = [opened |-> TRUE, hdr_ok |-> hdr_ok, data_ok |-> data_ok,
                  header |-> IF hdr_ok THEN tga_header ELSE Zeros({}),
                  data |-> IF data_ok THEN image ELSE Zeros({})]
    /\ Enter(After("write_tga"))
    /\ UNCHANGED <<WIDTH, HEIGHT, buffer, mult, frame_in, fread_short, undef,
                   oob, acc>>

Next ==
    \/ ReadFileOpenFail
    \/ ReadFile
    \/ MinMaxStep
    \/ MinMaxReturn
    \/ NormalizeStep
    \/ NormalizeReturn
    \/ DebayerStep
    \/ DebayerReturn
    \/ WriteTgaOpenFail
    \/ WriteTga

Spec == Init /\ [][Next]_vars

\* Geometries that exercise both bytes of the header's width and height:
\* every 16-bit width and every 16-bit height, on frames small enough to run.
HeaderInit ==
    \/ \E w \in 0 .. U16Max : InitAt(w, 0)
    \/ \E h \in 0 .. U16Max : InitAt(0, h)
    \/ InitAt(1, 1)

HeaderSpec == HeaderInit /\ [][Next]_vars

(***************************************************************************)
(* Vocabulary of the properties.                                           *)
(***************************************************************************)
Range(f) == {f[i] : i \in DOMAIN f}
SetMin(S) == CHOOSE m \in S : \A n \in S : m <= n
SetMax(S) == CHOOSE m \in S : \A n \in S : m >= n
Uniform(f) == Cardinality(Range(f)) = 1

Called(stage) == \E i \in DOMAIN calls : calls[i] = stage
PcsOf(stage) == IF stage = "normalize_frame"
                THEN {"min_max_frame", "normalize_frame"} ELSE {stage}
\* normalize_frame or debayer has run to its end.
Returned(stage) == Called(stage) /\ pc \notin PcsOf(stage)
MinMaxReturned == Called("normalize_frame") /\ pc # "min_max_frame"

\* The sensor grid: 2*WIDTH columns by 2*HEIGHT rows, row-major.
Grid(col, row) == row * (2 * WIDTH) + col
RedAt(X, Y) == Grid(2 * X, 2 * Y)
GrAt(X, Y) == Grid(2 * X + 1, 2 * Y)
GbAt(X, Y) == Grid(2 * X, 2 * Y + 1)
BlueAt(X, Y) == Grid(2 * X + 1, 2 * Y + 1)
Blocks == (0 .. WIDTH - 1) \X (0 .. HEIGHT - 1)

\* floor(v * 255 / 1023)
Scale8(v) == (v * 255) \div 1023

\* round(num / den), to nearest, halves away from zero (num >= 0, den > 0).
RoundDiv(num, den) == (2 * num + den) \div (2 * den)

C2_ExactRounding ==
    (Returned("normalize_frame") /\ DOMAIN frame_in # {} /\ ~Uniform(frame_in))
    => LET lo == SetMin(Range(frame_in))
           hi == SetMax(Range(frame_in))
       IN  \A i \in DOMAIN frame_in :
              buffer[i] = RoundDiv((frame_in[i] - lo) * 1023, hi - lo)

\* What the code does guarantee of the normalized frame (not C2 as stated):
\* the range, the two extremes, and an error of at most 1.
C2_RangeAndExtremes ==
    (Returned("normalize_frame") /\ DOMAIN frame_in # {} /\ ~Uniform(frame_in))
    => LET lo == SetMin(Range(frame_in))
           hi == SetMax(Range(frame_in))
       IN  \A i \in DOMAIN frame_in :
              /\ buffer[i] \in 0 .. 1023
              /\ frame_in[i] = lo => buffer[i] = 0
              /\ frame_in[i] = hi => buffer[i] = 1023
              /\ Abs(buffer[i] - RoundDiv((frame_in[i] - lo) * 1023, hi - lo)) <= 1

(***************************************************************************)
(* C3: a frame whose samples are all equal is normalized without a         *)
(* division by zero (the factor is a finite number) and without an         *)
(* undefined conversion: every sample and byte written is a defined value. *)
(***************************************************************************)
C3_UniformFrameDefined ==
    (Uniform(frame_in) /\ MinMaxReturned) => (mult.k = "fin" /\ ~undef)

(***************************************************************************)
(* C4: normalize_frame leaves a frame with minimum 0 and maximum 1023      *)
(* unchanged, and applied again to the frame it produced from a            *)
(* non-uniform frame it changes no sample by more than 1.                  *)
(***************************************************************************)
C4_Idempotent ==
    (pc = "debayer" /\ x = 0 /\ y = 0 /\ DOMAIN frame_in # {} /\ ~Uniform(frame_in))
    => /\ (SetMin(Range(frame_in)) = 0 /\ SetMax(Range(frame_in)) = 1023)
              => buffer = frame_in
       /\ LET again == normalize_frame(buffer)
          IN  \A i \in DOMAIN buffer :
                 again[i] # Undef /\ Abs(again[i] - buffer[i]) <= 1

\* A frame 0..30 was rescaled, and normalizing the result again returns it.
C4_Witness ==
    /\ pc = "debayer" /\ x = 0 /\ y = 0
    /\ min = 0 /\ max = 30 /\ 15 \in Range(frame_in)
    /\ buffer # frame_in
    /\ normalize_frame(buffer) = buffer

(***************************************************************************)
(* Two frames that differ in one red sample.                               *)
(***************************************************************************)
\* The image main computes from frame f.
Pipeline(f) == debayer(normalize_frame(f))

\* frame_in with the red sample of block b set to v: the frames that differ
\* from the one read only in that sample.  Of each such pair of frames the
\* run is taken on the one with the smaller red sample.
RedSet(b, v) == [frame_in EXCEPT ![RedAt(b[1], b[2])] = v]

\* img and the image of this run agree everywhere but at the R byte of b.
SameButRed(img, b) ==
    \A j \in DOMAIN image : j # 3 * (b[2] * WIDTH + b[1]) + 2 => img[j] = image[j]

(***************************************************************************)
(* C5: two input frames that differ only in the red sample of one block    *)
(* (x,y) give output images (normalize_frame, then debayer) that differ at *)
(* most in the R byte of pixel (x,y).                                      *)
(***************************************************************************)
\* C5 as stated (for frames that are not uniform, where the output is
\* defined): the images differ at most in the R byte of the block.
C5_AnyRedPerturbation ==
    (pc = "write_tga" /\ ~Uniform(frame_in))
    => \A b \in Blocks, v \in Samples :
          (v > frame_in[RedAt(b[1], b[2])] /\ ~Uniform(RedSet(b, v)))
             => SameButRed(Pipeline(RedSet(b, v)), b)

\* C5, amended: two frames that differ only in the red sample of one block
\* and have the same global minimum and maximum give images that differ at
\* most in the R byte of that block's pixel.
C5_RedPerturbationSameRange ==
    pc = "write_tga"
    => \A b \in Blocks, v \in Samples :
          (/\ v > frame_in[RedAt(b[1], b[2])]
           /\ v <= max
           /\ min_max_frame(RedSet(b, v)) = [min |-> min, max |-> max])
             => SameButRed(Pipeline(RedSet(b, v)), b)

\* A red sample was changed inside the frame's range and the R byte changed.
C5_Witness ==
    /\ pc = "write_tga" /\ ~Uniform(frame_in)
    /\ \E b \in Blocks, v \in Samples :
          /\ RedSet(b, v) # frame_in
          /\ min_max_frame(RedSet(b, v)) = min_max_frame(frame_in)
          /\ LET r == 3 * (b[2] * WIDTH + b[1]) + 2
             IN  Pipeline(RedSet(b, v))[r] # image[r]

(***************************************************************************)
(* C6: the header write_tga emits has 18 bytes: byte 2 is 2, byte 16 is    *)
(* 24, byte 17 is 32, bytes 12-13 and 14-15 are the little-endian width    *)
(* and height (so both are recovered from them), every other byte is 0.    *)
(***************************************************************************)
C6_HeaderGeometry ==
    out.hdr_ok
    => LET h == out.header
       IN  /\ DOMAIN h = 0 .. 17
           /\ \A i \in DOMAIN h : h[i] \in 0 .. 255
           /\ h[2] = 2 /\ h[16] = 24 /\ h[17] = 32
           /\ \A i \in (0 .. 17) \ {2, 12, 13, 14, 15, 16, 17} : h[i] = 0
           /\ h[12] + 256 * h[13] = WIDTH
           /\ h[14] + 256 * h[15] = HEIGHT

\* The header of a 1920-wide frame was written: 1920 = 128 + 256 * 7.
C6_Witness ==
    /\ out.hdr_ok /\ WIDTH = 1920
    /\ out.header[12] = 128 /\ out.header[13] = 7

(***************************************************************************)
(* C7: the process exits with code 0 only when the whole frame was read    *)
(* and the header and all pixel bytes were written; after a short read it  *)
(* exits with a nonzero code and runs no later stage.                      *)
(***************************************************************************)
C7_ExitZeroOnlyOnSuccess ==
    /\ (pc = "exit" /\ exit_code = 0)
          => (~fread_short /\ out.hdr_ok /\ out.data_ok)
    /\ fread_short => (pc = "exit" /\ exit_code # 0)

(***************************************************************************)
(* C8: min_max_frame returns the true minimum and maximum of the frame:    *)
(* min <= every sample <= max, both are values of samples, max >= min, and *)
(* max = min exactly when all samples are equal.                           *)
(***************************************************************************)
C8_MinMax ==
    (MinMaxReturned /\ DOMAIN frame_in # {})
    => LET samples == Range(frame_in)
       IN  /\ \A v \in samples : min <= v /\ v <= max
           /\ min \in samples
           /\ max \in samples
           /\ max >= min
           /\ (max = min) <=> (Cardinality(samples) = 1)
           /\ min_max_frame(frame_in) = [min |-> min, max |-> max]

\* min_max_frame has returned 15 and 65535 for a frame reaching above 1023.
C8_Witness ==
    /\ pc = "normalize_frame" /\ x = 0 /\ y = 0
    /\ min = 15 /\ max = 65535
    /\ Range(frame_in) = {15, 1023, 65535}

(***************************************************************************)
(* The order of the stages, and the progress of a run.                     *)
(***************************************************************************)
StageOrder == <<"read_file", "normalize_frame", "debayer", "write_tga">>

\* The places main can be in, in program order.
PcOrder == <<"read_file", "min_max_frame", "normalize_frame", "debayer",
             "write_tga", "exit">>
PcRank == Len(PcOrder) - (CHOOSE i \in DOMAIN PcOrder : PcOrder[i] = pc)
LoopPcs == {"min_max_frame", "normalize_frame", "debayer"}

\* A bound on the number of steps the run still takes: the places still to
\* visit, each with at most WIDTH * HEIGHT loop iterations, and the
\* iterations left of the loop main is in.
Variant ==
    PcRank * (WIDTH * HEIGHT + 1)
    + (IF pc \in LoopPcs THEN WIDTH * HEIGHT - (y * WIDTH + x) ELSE 0)

\* The run has ended or its next statement can execute: control is at a
\* place of the program, and what the statement chooses from is not empty.
CanStep ==
    \/ pc = "exit"
    \/ pc = "read_file"
    \/ pc \in LoopPcs /\ UndefU16 # {}
    \/ pc = "write_tga"

\* The calls so far are a prefix of the stage order, and control is inside
\* the last one called.
InOrder ==
    /\ Len(calls) \in 1 .. Len(StageOrder)
    /\ \A i \in DOMAIN calls : calls[i] = StageOrder[i]
    /\ pc # "exit" => pc \in PcsOf(calls[Len(calls)])

\* After a failed open of the input nothing else has happened.
InputOpenFailed == pc = "exit" /\ calls = <<"read_file">>
NothingElseRan ==
    /\ exit_code # 0
    /\ ~out.opened
    /\ DOMAIN buffer = {}
    /\ DOMAIN image = {}

(***************************************************************************)
(* C9: the stages run at most once each, in the order read_file,           *)
(* normalize_frame, debayer, write_tga, one at a time; every run ends; the *)
(* sensor buffer changes only in read_file (which fills it) and            *)
(* normalize_frame, the image only in debayer; and when the input cannot   *)
(* be opened nothing else is called and the output is never opened.        *)
(***************************************************************************)
C9_Pipeline ==
    [][/\ InOrder /\ InOrder'
       /\ calls' # calls => Len(calls') = Len(calls) + 1
       /\ pc' # pc => (pc \in LoopPcs => ~InLoop)
       /\ buffer' # buffer => pc \in {"read_file", "normalize_frame"}
       /\ image' # image => pc' = "debayer"
       /\ out' # out => pc = "write_tga"
       /\ InputOpenFailed' => NothingElseRan'
       /\ Variant >= 0 /\ Variant' >= 0 /\ Variant' < Variant
       /\ CanStep /\ CanStep']_vars

\* A run went through all four stages and returned 0.
C9_Witness ==
    /\ pc = "exit" /\ exit_code = 0
    /\ calls = StageOrder
    /\ out.opened /\ out.hdr_ok /\ out.data_ok

\* The four sample offsets of a block.
Colors == {RG10_R, RG10_Gr, RG10_Gb, RG10_B}

(***************************************************************************)
(* C10: RG10_LOCATION puts red, Gr, Gb and blue of block (x,y) at grid     *)
(* positions (2x,2y), (2x+1,2y), (2x,2y+1), (2x+1,2y+1); the four indices  *)
(* are distinct and inside the buffer, every slot belongs to exactly one   *)
(* block, so each loop touches every sample exactly once and never outside *)
(* the buffer; RGB_LOCATION likewise covers every output byte once.        *)
(***************************************************************************)
\* The addressing is a fact of the geometry alone, which no step changes: it
\* is stated of the state the run starts in.
C10_Addressing ==
    /\ ~oob
    /\ pc = "read_file"
          => /\ \A b \in Blocks :
                   LET X == b[1]
                       Y == b[2]
                   IN  /\ RG10_LOCATION(X, Y, RG10_R) = RedAt(X, Y)
                       /\ RG10_LOCATION(X, Y, RG10_Gr) = GrAt(X, Y)
                       /\ RG10_LOCATION(X, Y, RG10_Gb) = GbAt(X, Y)
                       /\ RG10_LOCATION(X, Y, RG10_B) = BlueAt(X, Y)
                       /\ Cardinality({RG10_LOCATION(X, Y, c) : c \in Colors}) = 4
                       /\ \A c \in Colors :
                             RG10_LOCATION(X, Y, c) \in 0 .. 4 * WIDTH * HEIGHT - 1
                       /\ \A c \in {RGB_R, RGB_G, RGB_B} :
                             RGB_LOCATION(X, Y, c) \in 0 .. 3 * WIDTH * HEIGHT - 1
             /\ Cardinality(Blocks \X Colors) = 4 * WIDTH * HEIGHT
             /\ {RG10_LOCATION(bc[1][1], bc[1][2], bc[2]) : bc \in Blocks \X Colors}
                   = 0 .. 4 * WIDTH * HEIGHT - 1
             /\ {RGB_LOCATION(bc[1][1], bc[1][2], bc[2]) :
                      bc \in Blocks \X {RGB_R, RGB_G, RGB_B}}
                   = 0 .. 3 * WIDTH * HEIGHT - 1
    /\ pc # "read_file" /\ DOMAIN frame_in # {}
          => LET Once(cnt, done) ==
                    \A i \in DOMAIN cnt : IF done THEN cnt[i] = 1 ELSE cnt[i] <= 1
             IN  /\ DOMAIN buffer = 0 .. 4 * WIDTH * HEIGHT - 1
                 /\ DOMAIN acc.mm = DOMAIN buffer
                 /\ DOMAIN acc.nf = DOMAIN buffer
                 /\ DOMAIN acc.db = DOMAIN buffer
                 /\ DOMAIN acc.img = 0 .. 3 * WIDTH * HEIGHT - 1
                 /\ Once(acc.mm, MinMaxReturned)
                 /\ Once(acc.nf, Returned("normalize_frame"))
                 /\ Once(acc.db, Returned("debayer"))
                 /\ Once(acc.img, Returned("debayer"))
                 /\ Returned("debayer")
                       => /\ DOMAIN image = 0 .. 3 * WIDTH * HEIGHT - 1
                          /\ \A j \in DOMAIN image : image[j] # Uninit

\* All three loops have run over a frame two blocks wide.
C10_Witness ==
    /\ pc = "write_tga" /\ WIDTH = 2 /\ HEIGHT = 1
    /\ \A i \in 0 .. 7 : acc.mm[i] = 1 /\ acc.nf[i] = 1 /\ acc.db[i] = 1
    /\ \A j \in 0 .. 5 : acc.img[j] = 1
=============================================================================
